---- MODULE Spec2Model ----
(***************************************************************************)
(* Model of fontpreview/fontbanner.py: the FontWall layout engine          *)
(* (FontWall.__init__, FontWall.draw, FontWall.__concatenate), the         *)
(* FontBanner.add_image / resize pair and the FontLogo size checks.        *)
(*                                                                         *)
(* An image is a record [w, h, pix] where pix maps every coordinate        *)
(* <<x, y>> with 0 <= x < w and 0 <= y < h to a pixel.  A pixel is a tuple *)
(* <<kind, id, x, y>>: <<"white",0,0,0>> and <<"black",0,0,0>> are the two *)
(* fill colours, <<"tile", i, x, y>> is pixel (x, y) of tile number i.     *)
(***************************************************************************)
EXTENDS Integers, Sequences, FiniteSets, TLC

\* ---------------------------------------------------------------- bounds
MaxTiles == 3
MaxK == 3
MaxBanner == 3
MaxImg == 5
MaxLetters == 3

\* ------------------------------------------------------ program constants
\* resize(image, bg_image, ratio=1.2): the ratio in tenths
RatioTenths == 12

VARIABLES
    \* FontWall fields
    fonts, mode, max_tile, max_width, max_height, wall,
    \* FontWall: where the last call stopped, what it raised, its arguments
    \* and the locals of the last draw (partition list, partition rectangles)
    pc, err, call, parts, rects

wallVars == <<fonts, mode, max_tile, max_width, max_height, wall,
              pc, err, call, parts, rects>>

\* FontBanner: dimension and image size, the image add_image was given and
\* the one it pasted; FontLogo: dimension and font_text, the last call
VARIABLES banner, bpc, given, pasted, logo, lpc, lerr, lcall

bannerVars == <<banner, bpc, given, pasted>>

logoVars == <<logo, lpc, lerr, lcall>>

vars == <<fonts, mode, max_tile, max_width, max_height, wall,
          pc, err, call, parts, rects,
          banner, bpc, given, pasted, logo, lpc, lerr, lcall>>

\* ------------------------------------------------------- python builtins
Min(a, b) == IF a <= b THEN a ELSE b

Max2(a, b) == IF a >= b THEN a ELSE b

RECURSIVE SumSeq(_)
SumSeq(s) == IF s = <<>> THEN 0 ELSE s[1] + SumSeq(Tail(s))

RECURSIVE MaxSeq(_)
MaxSeq(s) == IF Len(s) = 1 THEN s[1] ELSE Max2(s[1], MaxSeq(Tail(s)))

\* max() of an empty sequence raises ValueError
MaxRaisesDefault0(s) == FALSE

MaxRaises(s) == s = <<>>

\* the value max() yields when it does not raise
MaxVal(s) == IF s = <<>> THEN 0 ELSE MaxSeq(s)

\* range(start, stop, step) for step >= 1
RECURSIVE Range(_, _, _)
Range(start, stop, step) ==
    IF start >= stop THEN <<>>
    ELSE <<start>> \o Range(start + step, stop, step)

\* s[i:j] for 0 <= i <= j (0-based, j exclusive, clipped to len(s))
Slice(s, i, j) == SubSeq(s, i + 1, Min(j, Len(s)))

\* ------------------------------------------------------------ PIL images
White == <<"white", 0, 0, 0>>

Black == <<"black", 0, 0, 0>>

Coords(w, h) == (0 .. (w - 1)) \X (0 .. (h - 1))

\* Image.new(mode, (w, h), color)
NewImage(w, h, color) == [w |-> w, h |-> h, pix |-> [c \in Coords(w, h) |-> color]]

\* Image.new(mode, size) without a colour: PIL fills with 0, i.e. black
NewImageDefault(w, h) == NewImage(w, h, Black)

\* the wall attribute before draw has assigned it
NoWall == [alloc |-> FALSE, w |-> 0, h |-> 0, pix |-> <<>>]

\* dst.paste(src, (px, py)): copies the whole of src, clipped to dst
Paste(dst, src, pos) ==
    [dst EXCEPT !.pix =
        [c \in DOMAIN dst.pix |->
            IF /\ c[1] >= pos[1] /\ c[1] < pos[1] + src.w
               /\ c[2] >= pos[2] /\ c[2] < pos[2] + src.h
            THEN src.pix[<<c[1] - pos[1], c[2] - pos[2]>>]
            ELSE dst.pix[c]]]

\* font.image of tile t: its own pixels, never changed by the wall
TileImage(t) ==
    [w |-> t.w, h |-> t.h,
     pix |-> [c \in Coords(t.w, t.h) |-> <<"tile", t.id, c[1], c[2]>>]]

\* ------------------------------------------------------------- FontWall
Modes == {"horizontal", "vertical"}

Widths(fs) == [i \in 1 .. Len(fs) |-> fs[i].w]

Heights(fs) == [i \in 1 .. Len(fs) |-> fs[i].h]

\* a split that forgets the short trailing slice
SplitFullOnly(fs, k) ==
    LET starts == Range(0, Len(fs) - k + 1, k)
    IN  [n \in 1 .. Len(starts) |-> Slice(fs, starts[n], starts[n] + k)]

\* draw, lines 343-346: the local list `fonts` of consecutive slices
Split(fs, k) ==
    LET starts == Range(0, Len(fs), k)
    IN  [n \in 1 .. Len(starts) |-> Slice(fs, starts[n], starts[n] + k)]

\* a measurement that sums the widths in either mode
PartWidthSum(m, p) == SumSeq(Widths(p))

\* draw, lines 351-357: one entry of the lists max_width / max_height
PartWidth(m, p) == IF m = "horizontal" THEN SumSeq(Widths(p)) ELSE MaxSeq(Widths(p))

PartHeight(m, p) == IF m = "horizontal" THEN MaxSeq(Heights(p)) ELSE SumSeq(Heights(p))

\* __concatenate, lines 312-317: the size of the intermediate image dst
DstWidth(m, p) == IF m = "horizontal" THEN SumSeq(Widths(p)) ELSE MaxSeq(Widths(p))

DstHeight(m, p) == IF m = "horizontal" THEN MaxSeq(Heights(p)) ELSE SumSeq(Heights(p))

\* a paste loop whose `start` is the last tile's extent, not the running sum
RECURSIVE PasteTilesNoSum(_, _, _, _, _, _)
PasteTilesNoSum(dst, p, n, start, m, offs) ==
    IF n > Len(p) THEN [dst |-> dst, offs |-> offs]
    ELSE IF m = "horizontal"
         THEN PasteTilesNoSum(Paste(dst, TileImage(p[n]), <<start, 0>>), p, n + 1,
                              p[n].w, m, Append(offs, <<start, 0>>))
         ELSE PasteTilesNoSum(Paste(dst, TileImage(p[n]), <<0, start>>), p, n + 1,
                              p[n].h, m, Append(offs, <<0, start>>))

\* __concatenate, lines 321-331: paste tile n.. of p into dst, `start` running
RECURSIVE PasteTiles(_, _, _, _, _, _)
PasteTiles(dst, p, n, start, m, offs) ==
    IF n > Len(p) THEN [dst |-> dst, offs |-> offs]
    ELSE IF m = "horizontal"
         THEN PasteTiles(Paste(dst, TileImage(p[n]), <<start, 0>>), p, n + 1,
                         p[n].w + start, m, Append(offs, <<start, 0>>))
         ELSE PasteTiles(Paste(dst, TileImage(p[n]), <<0, start>>), p, n + 1,
                         p[n].h + start, m, Append(offs, <<0, start>>))

\* __concatenate(fonts, position): the wall after the paste, dst.size and
\* the offsets at which the tiles went into dst
Concatenate(w, p, position, m) ==
    LET dst0 == NewImageDefault(DstWidth(m, p), DstHeight(m, p))
        r == PasteTiles(dst0, p, 1, 0, m, <<>>)
    IN  [wall |-> Paste(w, r.dst, position),
         size |-> <<r.dst.w, r.dst.h>>,
         offs |-> r.offs]

\* a composite loop whose origin is the last partition's extent, not the sum
RECURSIVE BuildNoSum(_, _, _, _, _, _)
BuildNoSum(w, ps, n, start_position, m, rs) ==
    IF n > Len(ps) THEN [wall |-> w, rects |-> rs]
    ELSE LET c == Concatenate(w, ps[n], start_position, m)
             last_position == c.size
             next == IF m = "horizontal"
                     THEN <<0, last_position[2]>>
                     ELSE <<last_position[1], 0>>
         IN  BuildNoSum(c.wall, ps, n + 1, next, m,
                        Append(rs, [pos |-> start_position, size |-> c.size,
                                    offs |-> c.offs]))

\* draw, lines 370-377: the composite loop over the partitions
RECURSIVE Build(_, _, _, _, _, _)
Build(w, ps, n, start_position, m, rs) ==
    IF n > Len(ps) THEN [wall |-> w, rects |-> rs]
    ELSE LET c == Concatenate(w, ps[n], start_position, m)
             last_position == c.size
             next == IF m = "horizontal"
                     THEN <<0, start_position[2] + last_position[2]>>
                     ELSE <<start_position[1] + last_position[1], 0>>
         IN  Build(c.wall, ps, n + 1, next, m,
                   Append(rs, [pos |-> start_position, size |-> c.size,
                               offs |-> c.offs]))

\* draw, lines 365-367: the canvas draw allocates
AllocWallKeep(self, W, H) ==
    IF self.wall.alloc THEN self.wall
    ELSE [alloc |-> TRUE] @@ NewImage(W, H, White)

AllocWall(self, W, H) == [alloc |-> TRUE] @@ NewImage(W, H, White)

\* draw(max_tile) on the object `self` (a record of the fields draw reads or
\* writes): the fields after the call, the line group where it stopped (pc),
\* what it raised (err) and its locals
DrawOn(self, k) ==
    LET ps == Split(self.fonts, k)
        m == self.mode
        mw == [n \in 1 .. Len(ps) |-> PartWidth(m, ps[n])]
        mh == [n \in 1 .. Len(ps) |-> PartHeight(m, ps[n])]
        W == IF m = "horizontal" THEN MaxVal(mw) ELSE SumSeq(mw)
        H == IF m = "horizontal" THEN SumSeq(mh) ELSE MaxVal(mh)
        b == Build(AllocWall(self, W, H), ps, 1, <<0, 0>>, m, <<>>)
    IN  IF m = "horizontal" /\ MaxRaises(mw)
        THEN \* line 359 raises: nothing assigned yet
             [max_width |-> self.max_width, max_height |-> self.max_height,
              wall |-> self.wall, pc |-> "max_width", err |-> "ValueError",
              parts |-> ps, rects |-> <<>>]
        ELSE IF m # "horizontal" /\ MaxRaises(mh)
        THEN \* line 362 has assigned max_width, line 363 raises
             [max_width |-> W, max_height |-> self.max_height,
              wall |-> self.wall, pc |-> "max_height", err |-> "ValueError",
              parts |-> ps, rects |-> <<>>]
        ELSE [max_width |-> W, max_height |-> H,
              wall |-> b.wall, pc |-> "done", err |-> "",
              parts |-> ps, rects |-> b.rects]

\* the object after lines 281-292 of __init__, before draw
Fresh(fs, m) ==
    [fonts |-> fs, mode |-> m, max_width |-> 0, max_height |-> 0, wall |-> NoWall]

Self == [fonts |-> fonts, mode |-> mode, max_width |-> max_width,
         max_height |-> max_height, wall |-> wall]

\* __init__, lines 278-293: the constructor's outcome
InitLate(fs, k, m) ==
    IF m \notin Modes
    THEN [fonts |-> fs, mode |-> "", max_tile |-> 0, max_width |-> 0,
          max_height |-> 0, wall |-> NoWall, pc |-> "mode", err |-> "ValueError",
          parts |-> <<>>, rects |-> <<>>]
    ELSE [fonts |-> fs, mode |-> m, max_tile |-> k] @@ DrawOn(Fresh(fs, m), k)

FontWallInit(fs, k, m) ==
    IF m \notin Modes
    THEN \* line 279 raises before any attribute is assigned
         [fonts |-> <<>>, mode |-> "", max_tile |-> 0, max_width |-> 0,
          max_height |-> 0, wall |-> NoWall, pc |-> "mode", err |-> "ValueError",
          parts |-> <<>>, rects |-> <<>>]
    ELSE [fonts |-> fs, mode |-> m, max_tile |-> k] @@ DrawOn(Fresh(fs, m), k)

\* ---------------------------------------------------------------- inputs
\* tile widths and heights
Dims == {1, 2}

Ks == 1 .. MaxK

ModeArgs == Modes \cup {"diagonal"}

\* the FontPreview objects line 281 yields, numbered in input order from 0
TileLists ==
    UNION {[1 .. n -> Dims \X Dims] : n \in 0 .. MaxTiles}

MkTiles(ds) == [i \in 1 .. Len(ds) |-> [id |-> i - 1, w |-> ds[i][1], h |-> ds[i][2]]]

\* ----------------------------------------------------------------- state
WallInit ==
    /\ fonts = <<>> /\ mode = "" /\ max_tile = 0
    /\ max_width = 0 /\ max_height = 0 /\ wall = NoWall
    /\ pc = "new" /\ err = "" /\ parts = <<>> /\ rects = <<>>
    /\ call = [op |-> "none", n |-> 0, k |-> 0, mode |-> ""]

\* FontWall(fonts, max_tile, mode)
Construct ==
    /\ pc = "new"
    /\ \E ds \in TileLists, k \in Ks, m \in ModeArgs :
        LET r == FontWallInit(MkTiles(ds), k, m)
        IN  /\ fonts' = r.fonts /\ mode' = r.mode /\ max_tile' = r.max_tile
            /\ max_width' = r.max_width /\ max_height' = r.max_height
            /\ wall' = r.wall /\ pc' = r.pc /\ err' = r.err
            /\ parts' = r.parts /\ rects' = r.rects
            /\ call' = [op |-> "init", n |-> Len(ds), k |-> k, mode |-> m]
    /\ UNCHANGED <<bannerVars, logoVars>>

\* wall.draw(k) on a wall whose constructor returned
Draw ==
    /\ pc = "done"
    /\ \E k \in Ks :
        LET r == DrawOn(Self, k)
        IN  /\ max_width' = r.max_width /\ max_height' = r.max_height
            /\ wall' = r.wall /\ pc' = r.pc /\ err' = r.err
            /\ parts' = r.parts /\ rects' = r.rects
            /\ call' = [op |-> "draw", n |-> Len(fonts), k |-> k, mode |-> mode]
            /\ UNCHANGED <<fonts, mode, max_tile>>
    /\ UNCHANGED <<bannerVars, logoVars>>

\* ----------------------------------------------------------- FontBanner
\* tuple comparison a > b of Python: lexicographic
TupleGt(a, b) == a[1] > b[1] \/ (a[1] = b[1] /\ a[2] > b[2])

\* int(x // ratio) with ratio = 1.2
ShrinkDim(x) == (x * 10) \div RatioTenths

\* resize(image, bg_image), lines 40-46: the size image.resize is given
RECURSIVE Resize(_, _)
Resize(new_size, bg_size) ==
    IF TupleGt(new_size, bg_size)
    THEN Resize(<<ShrinkDim(new_size[1]), ShrinkDim(new_size[2])>>, bg_size)
    ELSE new_size

\* set_orientation, lines 110-122: the dimension, <<0, 0>> when it raises
Orientation(o) ==
    IF o = "landscape" THEN <<1653, 560>>
    ELSE IF o = "portrait" THEN <<560, 1653>>
    ELSE IF o = "square" THEN <<0, 0>>
    ELSE o

\* FontPreview.draw renders the bitmap at the banner's dimension
RenderSize(dimension) == dimension

\* add_image, lines 175-179: the size of the image that is pasted
AddImageSize(b, size) ==
    IF TupleGt(size, b.dimension) THEN Resize(size, b.image) ELSE size

Orientations == {"landscape", "portrait", "square"}
                    \cup ((1 .. MaxBanner) \X (1 .. MaxBanner))

ImgExtents == (1 .. MaxImg) \cup {2000}

BannerInit ==
    /\ banner = [dimension |-> <<0, 0>>, image |-> <<0, 0>>]
    /\ bpc = "new" /\ given = <<0, 0>> /\ pasted = <<0, 0>>

\* FontBanner(font, orientation)
NewBanner ==
    /\ bpc = "new"
    /\ \E o \in Orientations :
        IF o = "square"
        THEN bpc' = "failed" /\ UNCHANGED <<banner, given, pasted>>
        ELSE /\ banner' = [dimension |-> Orientation(o),
                           image |-> RenderSize(Orientation(o))]
             /\ bpc' = "built"
             /\ UNCHANGED <<given, pasted>>
    /\ UNCHANGED <<wallVars, logoVars>>

\* banner.add_image(image, position)
AddImage ==
    /\ bpc \in {"built", "pasted"}
    /\ \E w \in ImgExtents, h \in ImgExtents :
        /\ given' = <<w, h>>
        /\ pasted' = AddImageSize(banner, <<w, h>>)
    /\ bpc' = "pasted"
    /\ UNCHANGED <<banner, wallVars, logoVars>>

\* ------------------------------------------------------------- FontLogo
max_size == {<<75, 75>>, <<100, 100>>, <<150, 150>>, <<170, 170>>}

\* __max_size assigning before it checks
MaxSizeAssignFirst(dimension, size) ==
    [dimension |-> size, raised |-> size \notin max_size]

\* __max_size(size), lines 239-244
MaxSize(dimension, size) ==
    IF size \in max_size
    THEN [dimension |-> size, raised |-> FALSE]
    ELSE [dimension |-> dimension, raised |-> TRUE]

SizeArgs == {75, 100, 150, 170, 200} \X {75, 100, 150, 170, 200}

LetterArgs == UNION {[1 .. n -> {"a", "b"}] : n \in 0 .. MaxLetters}

NoLogo == [dimension |-> <<0, 0>>, font_text |-> <<>>]

LogoInit ==
    /\ logo = NoLogo /\ lpc = "new" /\ lerr = ""
    /\ lcall = [op |-> "none", size |-> <<0, 0>>, n |-> 0, before |-> NoLogo]

\* FontLogo(font, letters, size), lines 216-230
NewLogo ==
    /\ lpc = "new"
    /\ \E letters \in LetterArgs, size \in SizeArgs :
        LET r == MaxSize(NoLogo.dimension, size)
        IN  /\ lcall' = [op |-> "init", size |-> size, n |-> Len(letters),
                         before |-> logo]
            /\ IF Len(letters) > 2 \/ r.raised
               THEN lpc' = "failed" /\ lerr' = "ValueError" /\ UNCHANGED logo
               ELSE /\ logo' = [dimension |-> r.dimension, font_text |-> letters]
                    /\ lpc' = "built" /\ lerr' = ""
    /\ UNCHANGED <<wallVars, bannerVars>>

\* logo.new_size(size), lines 246-257
NewSize ==
    /\ lpc = "built"
    /\ \E size \in SizeArgs :
        LET r == MaxSize(logo.dimension, size)
        IN  /\ lcall' = [op |-> "new_size", size |-> size,
                         n |-> Len(logo.font_text), before |-> logo]
            /\ logo' = [logo EXCEPT !.dimension = r.dimension]
            /\ lerr' = IF r.raised THEN "ValueError" ELSE ""
    /\ UNCHANGED <<lpc, wallVars, bannerVars>>

\* -------------------------------------------------------- specifications
Init == WallInit /\ BannerInit /\ LogoInit

NextWall == Construct \/ Draw

NextBanner == NewBanner \/ AddImage

NextLogo == NewLogo \/ NewSize

SpecWall == Init /\ [][NextWall]_vars

SpecBanner == Init /\ [][NextBanner]_vars

SpecLogo == Init /\ [][NextLogo]_vars
\* ------------------------------------------------- vocabulary of the claims
\* a draw has run to its end (from the constructor or from a later call)
Drawn == pc = "done"

N == Len(fonts)

SetMax(S) == CHOOSE x \in S : \A y \in S : y <= x

RECURSIVE SetSum(_, _)
\* the sum of f[i] over i in S
SetSum(f, S) ==
    IF S = {} THEN 0
    ELSE LET i == CHOOSE j \in S : TRUE IN f[i] + SetSum(f, S \ {i})

\* tile number i (0-based) of the wall
Tile(i) == fonts[i + 1]

TileW == [i \in 0 .. (N - 1) |-> Tile(i).w]

TileH == [i \in 0 .. (N - 1) |-> Tile(i).h]

\* the 0-based tile numbers of partition q (0-based) for max_tile = k
Members(q, k) == {i \in 0 .. (N - 1) : i \div k = q}

NumParts(k) == (N + k - 1) \div k

\* a partition's extent, from the tile list alone
ExtW(q, k) ==
    IF mode = "horizontal" THEN SetSum(TileW, Members(q, k))
    ELSE SetMax({TileW[i] : i \in Members(q, k)})

ExtH(q, k) ==
    IF mode = "horizontal" THEN SetMax({TileH[i] : i \in Members(q, k)})
    ELSE SetSum(TileH, Members(q, k))

ExtWs(k) == [q \in 0 .. (NumParts(k) - 1) |-> ExtW(q, k)]

ExtHs(k) == [q \in 0 .. (NumParts(k) - 1) |-> ExtH(q, k)]

\* where the last draw put its tiles: one record per paste of a tile, with
\* the tile's canvas position (partition origin plus offset inside dst)
Placements ==
    UNION {{[id |-> parts[p][j].id, p |-> p - 1,
             x |-> rects[p].pos[1] + rects[p].offs[j][1],
             y |-> rects[p].pos[2] + rects[p].offs[j][2],
             w |-> parts[p][j].w, h |-> parts[p][j].h] :
                j \in DOMAIN parts[p]} : p \in DOMAIN rects}
InRect(c, pl) ==
    /\ c[1] >= pl.x /\ c[1] < pl.x + pl.w
    /\ c[2] >= pl.y /\ c[2] < pl.y + pl.h

RECURSIVE Flatten(_)
Flatten(ps) == IF ps = <<>> THEN <<>> ELSE ps[1] \o Flatten(Tail(ps))

\* ------------------------------------------------------------------ claims
\* C1: after draw(max_tile) on a non-empty tile list the canvas is, in
\* horizontal mode, as wide as the widest partition (sum of its tile widths)
\* and as high as the sum of the partitions' heights (max tile height each);
\* in vertical mode, as wide as the sum of the partitions' widths (max tile
\* width each) and as high as the highest partition (sum of its tile
\* heights); a single tile gives a canvas of that tile's size.
C1_CanvasSize ==
    Drawn =>
        LET k == call.k
            qs == 0 .. (NumParts(k) - 1)
            ws == {ExtW(q, k) : q \in qs}
            hs == {ExtH(q, k) : q \in qs}
        IN  /\ wall.alloc
            /\ DOMAIN wall.pix = Coords(wall.w, wall.h)
            /\ mode = "horizontal" =>
                   /\ wall.w = SetMax(ws)
                   /\ wall.h = SetSum(ExtHs(k), qs)
            /\ mode = "vertical" =>
                   /\ wall.w = SetSum(ExtWs(k), qs)
                   /\ wall.h = SetMax(hs)
            /\ N = 1 => wall.w = Tile(0).w /\ wall.h = Tile(0).h

\* C1 witness: a vertical wall of three tiles, two per column, whose canvas
\* is wider than every column and as high as the first column
C1_Witness ==
    /\ Drawn /\ mode = "vertical" /\ N = 3 /\ call.k = 2
    /\ wall.w = 3 /\ wall.h = 4

\* C2: draw(k) splits the N tiles into ceil(N/k) consecutive partitions, all
\* of k tiles but the last, which has N mod k tiles (k when N mod k = 0);
\* the partitions concatenated in order are the tile sequence.
C2_Partitioning ==
    Drawn =>
        LET k == call.k
            c == Len(parts)
        IN  /\ c * k >= N /\ (c - 1) * k < N
            /\ \A p \in 1 .. (c - 1) : Len(parts[p]) = k
            /\ Len(parts[c]) = (IF N % k = 0 THEN k ELSE N % k)
            /\ Flatten(parts) = fonts

\* C2 witness: three tiles drawn two per partition, the last partition short
C2_Witness ==
    /\ Drawn /\ N = 3 /\ call.k = 2
    /\ Len(parts) = 2 /\ Len(parts[2]) = 1

\* C3: after draw(k) tile i sits in partition i div k; in horizontal mode at
\* x = the widths of the tiles before it in its partition, y = the heights
\* of the partitions before its own; in vertical mode at x = the widths of
\* the partitions before its own, y = the heights of the tiles before it in
\* its partition.  Every tile is pasted once, its pixels are on the canvas
\* at that position, and every partition origin has cross-axis coordinate 0.
C3_Placement ==
    Drawn =>
        LET k == call.k
        IN  /\ Cardinality(Placements) = N
            /\ \A i \in 0 .. (N - 1) :
                \E pl \in Placements :
                    LET p == i \div k
                        before == {j \in Members(p, k) : j < i}
                    IN  /\ pl.id = i /\ pl.p = p
                        /\ mode = "horizontal" =>
                               /\ pl.x = SetSum(TileW, before)
                               /\ pl.y = SetSum(ExtHs(k), 0 .. (p - 1))
                        /\ mode = "vertical" =>
                               /\ pl.x = SetSum(ExtWs(k), 0 .. (p - 1))
                               /\ pl.y = SetSum(TileH, before)
                        /\ \A d \in Coords(Tile(i).w, Tile(i).h) :
                               /\ <<pl.x + d[1], pl.y + d[2]>> \in DOMAIN wall.pix
                               /\ wall.pix[<<pl.x + d[1], pl.y + d[2]>>]
                                      = <<"tile", i, d[1], d[2]>>
            /\ \A p \in DOMAIN rects :
                IF mode = "horizontal" THEN rects[p].pos[1] = 0
                ELSE rects[p].pos[2] = 0

\* C3 witness: a horizontal wall of three tiles, two per row: tile 1 right
\* of tile 0, tile 2 at the start of the second row
C3_Witness ==
    /\ Drawn /\ mode = "horizontal" /\ N = 3 /\ call.k = 2
    /\ \E a \in Placements : a.id = 1 /\ a.x = 2 /\ a.y = 0
    /\ \E b \in Placements : b.id = 2 /\ b.x = 0 /\ b.y = 2

\* C4: draw carries no state between calls: after any sequence of draws the
\* canvas (size and pixels) and the max_width / max_height fields are those
\* a single draw with the last argument gives on a freshly built wall.
C4_NoCarriedState ==
    Drawn =>
        LET f == DrawOn(Fresh(fonts, mode), call.k)
        IN  /\ wall = f.wall
            /\ max_width = f.max_width
            /\ max_height = f.max_height

\* C4 witness: a later draw with another max_tile than the constructor's,
\* whose canvas differs in size from the constructor's
C4_Witness ==
    /\ Drawn /\ call.op = "draw" /\ call.k # max_tile
    /\ wall.w # DrawOn(Fresh(fonts, mode), max_tile).wall.w

\* C5: a constructor call with a mode other than horizontal or vertical
\* raises ValueError at the mode check: no tile has been resolved (the fonts
\* attribute is never assigned), draw has not run and no canvas exists.
C5_BadModeFailsFast ==
    (call.op = "init" /\ call.mode \notin {"horizontal", "vertical"}) =>
        /\ err = "ValueError" /\ pc = "mode"
        /\ fonts = <<>> /\ parts = <<>> /\ rects = <<>>
        /\ ~wall.alloc

\* C5 witness: the constructor was given tiles and the mode "diagonal"
C5_Witness ==
    /\ call.op = "init" /\ call.mode = "diagonal" /\ call.n = 3
    /\ err = "ValueError"

\* C6 as stated: for an empty tile list draw produces an empty partition
\* list and a canvas of width 0 and height 0, in both modes.
C6_EmptyGivesEmptyCanvas ==
    (call.op = "init" /\ call.n = 0 /\ call.mode \in {"horizontal", "vertical"}) =>
        /\ parts = <<>>
        /\ wall.alloc /\ wall.w = 0 /\ wall.h = 0

\* C6 amended: for an empty tile list draw produces an empty partition list
\* and then raises ValueError (max of an empty list) before it allocates the
\* canvas, in both modes; max_width and max_height stay 0.
C6_EmptyRaises ==
    (call.op = "init" /\ call.n = 0 /\ call.mode \in {"horizontal", "vertical"}) =>
        /\ parts = <<>>
        /\ err = "ValueError" /\ pc \in {"max_width", "max_height"}
        /\ ~wall.alloc
        /\ max_width = 0 /\ max_height = 0

\* C6 witness: a vertical wall constructed from no tiles
C6_Witness ==
    /\ call.op = "init" /\ call.n = 0 /\ call.mode = "vertical"
    /\ pc = "max_height"

\* C7 as stated: the image add_image pastes is no wider and no higher than
\* the banner's canvas, and an image that already fits is pasted unchanged.
C7_PastedFits ==
    bpc = "pasted" =>
        /\ pasted[1] <= banner.image[1]
        /\ pasted[2] <= banner.image[2]
        /\ (given[1] <= banner.image[1] /\ given[2] <= banner.image[2])
               => pasted = given

\* C8: a constructed logo has one of the four allowed square dimensions and
\* a text of at most two characters, whatever new_size calls followed; a
\* construction with more than two letters or another size raises
\* ValueError; a new_size with another size raises ValueError and leaves
\* dimension and text as they were.
C8_LogoInvariant ==
    LET allowed == {<<75, 75>>, <<100, 100>>, <<150, 150>>, <<170, 170>>}
    IN  /\ lpc = "built" =>
               /\ logo.dimension \in allowed
               /\ Len(logo.font_text) <= 2
        /\ (lcall.op = "init" /\ (lcall.n > 2 \/ lcall.size \notin allowed)) =>
               lpc = "failed" /\ lerr = "ValueError"
        /\ (lcall.op = "init" /\ lcall.n <= 2 /\ lcall.size \in allowed) =>
               lpc = "built" /\ logo.dimension = lcall.size
        /\ (lcall.op = "new_size" /\ lcall.size \notin allowed) =>
               lerr = "ValueError" /\ logo = lcall.before
        /\ (lcall.op = "new_size" /\ lcall.size \in allowed) =>
               /\ lerr = "" /\ logo.dimension = lcall.size
               /\ logo.font_text = lcall.before.font_text

\* C8 witness: a new_size call with a size that is not allowed, on a logo of
\* two letters that an earlier new_size had resized
C8_Witness ==
    /\ lpc = "built" /\ lcall.op = "new_size" /\ lcall.size = <<200, 200>>
    /\ lerr = "ValueError" /\ logo.dimension = <<170, 170>>
    /\ Len(logo.font_text) = 2

\* C9: after draw every tile's rectangle and every partition's rectangle lie
\* inside the canvas, and no two tiles' rectangles overlap.
C9_InsideNoOverlap ==
    Drawn =>
        /\ \A pl \in Placements :
            /\ 0 <= pl.x /\ pl.x + pl.w <= wall.w
            /\ 0 <= pl.y /\ pl.y + pl.h <= wall.h
        /\ \A p \in DOMAIN rects :
            /\ 0 <= rects[p].pos[1] /\ rects[p].pos[1] + rects[p].size[1] <= wall.w
            /\ 0 <= rects[p].pos[2] /\ rects[p].pos[2] + rects[p].size[2] <= wall.h
        /\ \A a, b \in Placements :
            a # b =>
                \/ a.x + a.w <= b.x \/ b.x + b.w <= a.x
                \/ a.y + a.h <= b.y \/ b.y + b.h <= a.y

\* C9 witness: three tiles in one row, the last one ending at the canvas edge
C9_Witness ==
    /\ Drawn /\ mode = "horizontal" /\ N = 3 /\ call.k = 3
    /\ \E pl \in Placements : pl.id = 2 /\ pl.x > 0 /\ pl.x + pl.w = wall.w

\* C10 as stated: after draw every canvas pixel outside every tile's
\* rectangle shows the background colour (white).
C10_BackgroundOutsideTiles ==
    Drawn =>
        \A c \in DOMAIN wall.pix :
            (\A pl \in Placements : ~InRect(c, pl)) => wall.pix[c] = White
====
